---------------------------- MODULE Spec2Model ----------------------------
(***************************************************************************)
(* State-machine model of tf2/train.py: the top-level dispatcher `main`,   *)
(* Trainer.pretrain_generator, Trainer.get_dataset's input pipeline        *)
(* (map -> shuffle -> repeat -> batch), Trainer.pretrain_step and          *)
(* Trainer._save_generated_images.                                         *)
(*                                                                         *)
(* An image is a record [src, gen]: src is the index of the file it was    *)
(* decoded from, gen is -1 for a real image and otherwise the number of    *)
(* parameter updates the generator had received when it produced it.       *)
(* A batch is a sequence of images.                                        *)
(*                                                                         *)
(* Counters that grow with the step loop (step, generator, optimizer,      *)
(* consumed) are exact below MaxSteps; the value MaxSteps stands for       *)
(* "MaxSteps or more" (so does the step index in an artifact's name).     *)
(* The loop itself keeps running beyond that point.                        *)
(***************************************************************************)
EXTENDS Integers, Sequences, FiniteSets

VARIABLES
    mode,           \* kwargs["mode"]
    numFiles,       \* len(files) found by glob in get_dataset
    self,           \* the Trainer's configuration attributes
    pc,             \* position of the single thread of control
    exc,            \* the exception in flight ("none" when there is none)
    it,             \* state of the live dataset iterator
    real_batches,   \* local of pretrain_generator: [bound, list]
    image_batch,    \* loop variable of the step loop
    step,           \* enumerate() index of the step loop
    epoch,          \* number of epochs whose step loop has ended
    generator,      \* generator parameters: number of updates applied
    optimizer,      \* optimizer state: number of apply_gradients calls
    consumed,       \* batches yielded to the step loop
    result_dir,     \* artifacts present under result_dir
    sample_writes,  \* number of times sample_images.png was written
    sample_reads,   \* whether real_batches has been read
    last_save       \* the last call of _save_generated_images

vars == <<mode, numFiles, self, pc, exc, it, real_batches, image_batch, step,
          epoch, generator, optimizer, consumed, result_dir, sample_writes,
          sample_reads, last_save>>

---------------------------------------------------------------------------
(* Bounds of the model *)

MaxFiles == 1

MaxBatch == 2

MaxSample == 10

MaxEpochs == 2

MaxReport == 2

MaxSteps == 3

(* Program constants *)

ShuffleBuffer == 6000

NumImagesPerRow == 8

Modes == {"full", "pretrain", "gan"}

---------------------------------------------------------------------------
(* Helpers *)

Min(a, b) == IF a < b THEN a ELSE b

Inc(n) == IF n < MaxSteps THEN n + 1 ELSE n

RECURSIVE Concatenate(_)
Concatenate(batches) ==
    IF batches = <<>> THEN <<>>
    ELSE Head(batches) \o Concatenate(Tail(batches))

SampleImagesPng == [name |-> "sample_images", n |-> 0]

GeneratedImagesAtStep(s) == [name |-> "generated_images_at_step", n |-> s]

NoSave == [called |-> FALSE, images |-> <<>>, num_rows |-> 0, placed |-> 0,
           ok |-> FALSE, name |-> SampleImagesPng]

---------------------------------------------------------------------------
(* get_dataset: ds.map(image_processing).shuffle(6000).repeat().batch(n) *)

NewIterator == [pos |-> 1, buf |-> {}]

ImageProcessing(f) == [src |-> f, gen |-> -1]

\* shuffle: the buffer is topped up from the files not yet read
ShuffleFill(i) ==
    LET m == Min(ShuffleBuffer - Cardinality(i.buf), numFiles - i.pos + 1)
    IN  [pos |-> i.pos + m, buf |-> i.buf \cup (i.pos .. (i.pos + m - 1))]

\* shuffle: one element drawn at random from the buffer, or end of the pass
ShuffleNext(i) ==
    LET f == ShuffleFill(i)
    IN  IF f.buf = {}
        THEN {[end |-> TRUE, img |-> ImageProcessing(0), it |-> f]}
        ELSE {[end |-> FALSE, img |-> ImageProcessing(x),
               it |-> [f EXCEPT !.buf = @ \ {x}]] : x \in f.buf}

\* the pipeline without repeat(): the stream ends with the first pass
NoRepeat(i) == ShuffleNext(i)

\* repeat(): a pass that ends is restarted, unless it produced nothing
RepeatNext(i) ==
    LET first == ShuffleNext(i)
    IN  IF \A o \in first : ~o.end THEN first
        ELSE IF i = NewIterator THEN first
        ELSE ShuffleNext(NewIterator)

\* batch(n): gathers n elements; fewer when the input ends first
RECURSIVE Gather(_, _, _)
Gather(i, n, acc) ==
    IF n = 0 THEN {[batch |-> acc, it |-> i]}
    ELSE UNION {IF o.end THEN {[batch |-> acc, it |-> o.it]}
                ELSE Gather(o.it, n - 1, Append(acc, o.img))
                : o \in RepeatNext(i)}

\* one pull from the batched stream: a batch, or end of data
BatchNext(i) ==
    {[end |-> g.batch = <<>>, batch |-> g.batch, it |-> g.it]
     : g \in Gather(i, self.batch_size, <<>>)}

---------------------------------------------------------------------------
(* _save_generated_images *)

NumRows(batch_size, num_images_per_row) ==
    IF batch_size >= num_images_per_row
    THEN batch_size \div num_images_per_row
    ELSE 1

\* the add_subplot loop: index i + 1 must lie in 1 .. num_rows * num_cols
RECURSIVE AddSubplots(_, _, _, _)
AddSubplots(i, batch_size, num_rows, num_cols) ==
    IF i = batch_size THEN [ok |-> TRUE, placed |-> i]
    ELSE IF i + 1 > num_rows * num_cols THEN [ok |-> FALSE, placed |-> i]
    ELSE AddSubplots(i + 1, batch_size, num_rows, num_cols)

SaveGeneratedImages(batch_x, image_name, num_images_per_row) ==
    LET batch_size == Len(batch_x)
        num_rows == NumRows(batch_size, num_images_per_row)
        grid == AddSubplots(0, batch_size, num_rows, num_images_per_row)
    IN  [called |-> TRUE, images |-> batch_x, num_rows |-> num_rows,
         placed |-> grid.placed, ok |-> grid.ok, name |-> image_name]

---------------------------------------------------------------------------
(* The program *)

Configs ==
    [batch_size : 1 .. MaxBatch,
     sample_size : 0 .. MaxSample,
     pretrain_epochs : 0 .. MaxEpochs,
     pretrain_reporting_steps : 0 .. MaxReport,
     disable_sampling : BOOLEAN]

Init ==
    /\ mode \in Modes
    /\ numFiles \in 0 .. MaxFiles
    /\ self \in Configs
    /\ pc = "main"
    /\ exc = "none"
    /\ it = NewIterator
    /\ real_batches = [bound |-> FALSE, list |-> <<>>]
    /\ image_batch = <<>>
    /\ step = 0
    /\ epoch = 0
    /\ generator = 0
    /\ optimizer = 0
    /\ consumed = 0
    /\ result_dir = {}
    /\ sample_writes = 0
    /\ sample_reads = FALSE
    /\ last_save = NoSave

cfgVars == <<mode, numFiles, self>>

trainVars == <<generator, optimizer, consumed>>

outVars == <<result_dir, sample_writes, last_save>>

\* positions inside pretrain_generator
PretrainPcs == {"init", "sampling", "take", "save_samples", "epoch", "pull",
                "step", "report", "returned"}

\* sampling treated as enabled whatever the flag says
SamplingAlways == TRUE

\* if not self.disable_sampling
SamplingEnabled == ~self.disable_sampling

\* the number of batches taken without dividing by the batch size
SampleCountUndivided == self.sample_size

\* self.sample_size // self.batch_size
SampleCount == self.sample_size \div self.batch_size

\* the generator applied to one batch
Generate(batch) == [i \in 1 .. Len(batch) |-> [batch[i] EXCEPT !.gen = generator]]

\* the report taken to be due after every k-th step, counted from 1
DueCountingFromOne(s, k) ==
    IF s < MaxSteps THEN {(s + 1) % k = 0}
    ELSE {(s + 1 + d) % k = 0 : d \in 0 .. (k - 1)}

\* the report is due when step % pretrain_reporting_steps == 0
Due(s, k) ==
    IF s < MaxSteps THEN {s % k = 0}
    ELSE {(s + d) % k = 0 : d \in 0 .. (k - 1)}

\* main: the dispatch on mode
Main ==
    /\ pc = "main" /\ exc = "none"
    /\ pc' = IF mode \in {"full", "pretrain"} THEN "init" ELSE "train_gan"
    /\ UNCHANGED <<cfgVars, exc, it, real_batches, image_batch, step, epoch,
                   trainVars, outVars, sample_reads>>

\* pretrain_generator: the dataset, a fresh generator and its optimizer
Initializing ==
    /\ pc = "init" /\ exc = "none"
    /\ generator' = 0
    /\ optimizer' = 0
    /\ pc' = "sampling"
    /\ UNCHANGED <<cfgVars, exc, it, real_batches, image_batch, step, epoch,
                   consumed, outVars, sample_reads>>

\* if not self.disable_sampling: real_batches = list(); dataset.take(...)
SamplingSetup ==
    /\ pc = "sampling" /\ exc = "none"
    /\ IF SamplingEnabled
       THEN /\ real_batches' = [bound |-> TRUE, list |-> <<>>]
            /\ it' = NewIterator
            /\ pc' = "take"
       ELSE /\ pc' = "epoch"
            /\ UNCHANGED <<real_batches, it>>
    /\ UNCHANGED <<cfgVars, exc, image_batch, step, epoch, trainVars, outVars,
                   sample_reads>>

\* for image_batch in dataset.take(sample_size // batch_size): append
SampleTake ==
    /\ pc = "take" /\ exc = "none"
    /\ IF Len(real_batches.list) >= SampleCount
       THEN /\ pc' = "save_samples"
            /\ UNCHANGED <<real_batches, it, exc>>
       ELSE \E o \in BatchNext(it), data_ok \in BOOLEAN :
              IF o.end
              THEN /\ pc' = "save_samples"
                   /\ UNCHANGED <<real_batches, it, exc>>
              ELSE IF data_ok
              THEN /\ real_batches' =
                          [real_batches EXCEPT !.list = Append(@, o.batch)]
                   /\ it' = o.it
                   /\ UNCHANGED <<pc, exc>>
              ELSE /\ exc' = "DataError"
                   /\ UNCHANGED <<pc, real_batches, it>>
    /\ UNCHANGED <<cfgVars, image_batch, step, epoch, trainVars, outVars,
                   sample_reads>>

\* self._save_generated_images(concatenate(real_batches), "sample_images.png")
SaveSamples ==
    /\ pc = "save_samples" /\ exc = "none"
    /\ sample_reads' = TRUE
    /\ IF real_batches.list = <<>>
       THEN /\ exc' = "ValueError"
            /\ UNCHANGED <<pc, outVars>>
       ELSE LET g == SaveGeneratedImages(Concatenate(real_batches.list),
                                         SampleImagesPng, NumImagesPerRow)
            IN  /\ last_save' = g
                /\ \E io_ok \in BOOLEAN :
                     IF ~g.ok
                     THEN /\ exc' = "ValueError"
                          /\ UNCHANGED <<pc, result_dir, sample_writes>>
                     ELSE IF io_ok
                     THEN /\ result_dir' = result_dir \cup {SampleImagesPng}
                          /\ sample_writes' = sample_writes + 1
                          /\ pc' = "epoch"
                          /\ UNCHANGED exc
                     ELSE /\ exc' = "IOError"
                          /\ UNCHANGED <<pc, result_dir, sample_writes>>
    /\ UNCHANGED <<cfgVars, it, real_batches, image_batch, step, epoch,
                   trainVars>>

\* for epoch in range(self.pretrain_epochs): enumerate(dataset)
EpochLoop ==
    /\ pc = "epoch" /\ exc = "none"
    /\ IF epoch < self.pretrain_epochs
       THEN /\ it' = NewIterator
            /\ step' = 0
            /\ pc' = "pull"
       ELSE /\ pc' = "returned"
            /\ UNCHANGED <<it, step>>
    /\ UNCHANGED <<cfgVars, exc, real_batches, image_batch, epoch, trainVars,
                   outVars, sample_reads>>

\* for step, image_batch in enumerate(dataset): the next batch or the end
PullBatch ==
    /\ pc = "pull" /\ exc = "none"
    /\ \E o \in BatchNext(it), data_ok \in BOOLEAN :
         IF o.end
         THEN /\ epoch' = epoch + 1
              /\ pc' = "epoch"
              /\ UNCHANGED <<exc, it, image_batch, consumed>>
         ELSE IF data_ok
         THEN /\ image_batch' = o.batch
              /\ it' = o.it
              /\ consumed' = Inc(consumed)
              /\ pc' = "step"
              /\ UNCHANGED <<exc, epoch>>
         ELSE /\ exc' = "DataError"
              /\ UNCHANGED <<pc, it, image_batch, consumed, epoch>>
    /\ UNCHANGED <<cfgVars, real_batches, step, generator, optimizer, outVars,
                   sample_reads>>

\* a pretrain_step that computes the gradients and never applies them
PretrainStepNoApply ==
    /\ pc = "step" /\ exc = "none"
    /\ \E step_ok \in BOOLEAN :
         IF step_ok
         THEN /\ pc' = "report"
              /\ UNCHANGED <<exc, generator, optimizer>>
         ELSE /\ exc' = "StepError"
              /\ UNCHANGED <<pc, generator, optimizer>>
    /\ UNCHANGED <<cfgVars, it, real_batches, image_batch, step, epoch,
                   consumed, outVars, sample_reads>>

\* self.pretrain_step(image_batch, generator, optimizer)
PretrainStep ==
    /\ pc = "step" /\ exc = "none"
    /\ \E step_ok \in BOOLEAN :
         IF step_ok
         THEN /\ generator' = Inc(generator)
              /\ optimizer' = Inc(optimizer)
              /\ pc' = "report"
              /\ UNCHANGED exc
         ELSE /\ exc' = "StepError"
              /\ UNCHANGED <<pc, generator, optimizer>>
    /\ UNCHANGED <<cfgVars, it, real_batches, image_batch, step, epoch,
                   consumed, outVars, sample_reads>>

\* if step % self.pretrain_reporting_steps == 0: if not disable_sampling: ...
Reporting ==
    /\ pc = "report" /\ exc = "none"
    /\ IF self.pretrain_reporting_steps = 0
       THEN /\ exc' = "ZeroDivisionError"
            /\ UNCHANGED <<pc, step, outVars, sample_reads>>
       ELSE \E due \in Due(step, self.pretrain_reporting_steps),
               io_ok \in BOOLEAN :
              IF due /\ SamplingEnabled
              THEN LET fake_batches ==
                           [b \in 1 .. Len(real_batches.list) |->
                               Generate(real_batches.list[b])]
                       g == SaveGeneratedImages(Concatenate(fake_batches),
                                                GeneratedImagesAtStep(step),
                                                NumImagesPerRow)
                   IN  /\ last_save' = g
                       /\ sample_reads' = TRUE
                       /\ UNCHANGED sample_writes
                       /\ IF ~g.ok
                          THEN /\ exc' = "ValueError"
                               /\ UNCHANGED <<pc, step, result_dir>>
                          ELSE IF io_ok
                          THEN /\ result_dir' = result_dir
                                      \cup {GeneratedImagesAtStep(step)}
                               /\ step' = Inc(step)
                               /\ pc' = "pull"
                               /\ UNCHANGED exc
                          ELSE /\ exc' = "IOError"
                               /\ UNCHANGED <<pc, step, result_dir>>
              ELSE /\ step' = Inc(step)
                   /\ pc' = "pull"
                   /\ UNCHANGED <<exc, outVars, sample_reads>>
    /\ UNCHANGED <<cfgVars, it, real_batches, image_batch, epoch, trainVars>>

\* pretrain_generator returns to main
Return ==
    /\ pc = "returned" /\ exc = "none"
    /\ pc' = IF mode = "full" THEN "train_gan" ELSE "exit"
    /\ UNCHANGED <<cfgVars, exc, it, real_batches, image_batch, step, epoch,
                   trainVars, outVars, sample_reads>>

\* t.train_gan(): Trainer defines no such method
TrainGan ==
    /\ pc = "train_gan" /\ exc = "none"
    /\ exc' = "AttributeError"
    /\ UNCHANGED <<cfgVars, pc, it, real_batches, image_batch, step, epoch,
                   trainVars, outVars, sample_reads>>

\* an exception retried in place instead of being propagated
Retry ==
    /\ exc # "none" /\ pc \notin {"raised_in_main", "uncaught"}
    /\ exc' = "none"
    /\ UNCHANGED <<cfgVars, pc, it, real_batches, image_batch, step, epoch,
                   trainVars, outVars, sample_reads>>

\* no handler anywhere: the exception leaves pretrain_generator, then main
Propagate ==
    /\ exc # "none" /\ pc # "uncaught"
    /\ pc' = IF pc \in PretrainPcs THEN "raised_in_main" ELSE "uncaught"
    /\ UNCHANGED <<cfgVars, exc, it, real_batches, image_batch, step, epoch,
                   trainVars, outVars, sample_reads>>

Next ==
    \/ Main
    \/ Initializing
    \/ SamplingSetup
    \/ SampleTake
    \/ SaveSamples
    \/ EpochLoop
    \/ PullBatch
    \/ PretrainStep
    \/ Reporting
    \/ Return
    \/ TrainGan
    \/ Propagate

Spec == Init /\ [][Next]_vars

\* one thread of control: it takes its next step whenever it has one
FairSpec == Spec /\ WF_vars(Next)

---------------------------------------------------------------------------
(* Properties *)

EnvFaults == {"IOError", "DataError", "StepError"}

ExactSteps == 0 .. (MaxSteps - 1)

\* C1: with pretrain_epochs > 0 and a non-empty dataset, pretrain_generator,
\* once entered, eventually returns to main (or the run ends in a failure).
C1_PretrainReachesDone ==
    [](pc = "init" /\ self.pretrain_epochs > 0 /\ numFiles > 0
         => <>(pc \in {"returned", "train_gan", "exit"} \/ exc # "none"))

\* C2: with sampling enabled, sample_images.png is written exactly once,
\* before the first pretrain_step, and no generated_images_at_step_<N>.png is
\* written before it; with a non-empty dataset, a run that got as far as
\* saving the samples without an I/O, data or step fault has written it.
C2_SampleImageWrittenOnce ==
    (SamplingEnabled /\ numFiles >= 1) =>
        /\ sample_writes <= 1
        /\ (generator > 0 => sample_writes = 1)
        /\ (\A a \in result_dir : a # SampleImagesPng => sample_writes = 1)
        /\ (sample_reads /\ exc \notin EnvFaults => sample_writes = 1)

\* C3: with sampling enabled and pretrain_reporting_steps = K >= 1,
\* generated_images_at_step_<s>.png exists exactly for the completed steps s
\* with s % K = 0, and it is written at step s, after pretrain_step number s
\* was applied and before the next batch is pulled.
C3_ReportCadence ==
    /\ [](SamplingEnabled /\ self.pretrain_reporting_steps >= 1
            => \A s \in ExactSteps :
                 GeneratedImagesAtStep(s) \in result_dir
                   <=> (s < step /\ s % self.pretrain_reporting_steps = 0))
    /\ [][\A s \in ExactSteps :
            (GeneratedImagesAtStep(s) \notin result_dir
               /\ GeneratedImagesAtStep(s) \in result_dir')
              => /\ pc = "report" /\ step = s /\ generator = s + 1
                 /\ pc' = "pull" /\ step' = s + 1
                 /\ generator' = generator]_vars

C3_Witness ==
    /\ SamplingEnabled
    /\ self.pretrain_reporting_steps = 2
    /\ step = 3
    /\ GeneratedImagesAtStep(0) \in result_dir
    /\ GeneratedImagesAtStep(1) \notin result_dir
    /\ GeneratedImagesAtStep(2) \in result_dir

\* C4: with disable_sampling set, no artifact is ever written, real_batches
\* is never created or read, and every batch pulled by the step loop is
\* handed to pretrain_step.
C4_DisabledSamplingWritesNothing ==
    self.disable_sampling =>
        /\ result_dir = {}
        /\ sample_writes = 0
        /\ ~real_batches.bound
        /\ ~sample_reads
        /\ ~last_save.called
        /\ (exc = "none" /\ pc # "step" => generator = consumed)
        /\ (exc = "none" /\ pc = "step" => consumed = Inc(generator))

C4_Witness ==
    /\ self.disable_sampling
    /\ self.pretrain_reporting_steps = 1
    /\ pc = "pull"
    /\ step = 2
    /\ generator = 2

\* C5: _save_generated_images of n >= 1 images uses max(1, n div 8) rows of
\* 8 columns, does not fail and places every image in a cell of the grid.
C5_GridPlacesEveryImage ==
    (last_save.called /\ Len(last_save.images) >= 1) =>
        /\ last_save.num_rows =
              (IF Len(last_save.images) \div NumImagesPerRow >= 1
               THEN Len(last_save.images) \div NumImagesPerRow ELSE 1)
        /\ last_save.ok
        /\ last_save.placed = Len(last_save.images)
        /\ Len(last_save.images) <= last_save.num_rows * NumImagesPerRow

\* C6: with at least one file, the stream never signals end of data and
\* every batch it emits holds exactly batch_size images.
C6_StreamInfiniteFullBatches ==
    numFiles >= 1 =>
        /\ \A o \in BatchNext(it) : ~o.end /\ Len(o.batch) = self.batch_size
        /\ epoch = 0
        /\ (consumed > 0 => Len(image_batch) = self.batch_size)
        /\ \A b \in 1 .. Len(real_batches.list) :
             Len(real_batches.list[b]) = self.batch_size

C6_Witness ==
    /\ numFiles >= 1
    /\ self.batch_size > numFiles
    /\ consumed = MaxSteps
    /\ Len(image_batch) = self.batch_size
    /\ Len(real_batches.list) > numFiles

C8_OnlyPretrainStepUpdates ==
    /\ [](generator = optimizer)
    /\ [](exc = "none" /\ pc # "step" => generator = consumed)
    /\ [](exc = "none" /\ pc = "step" => consumed = Inc(generator))
    /\ [][(generator' # generator \/ optimizer' # optimizer)
            => /\ pc = "step" /\ pc' = "report"
               /\ generator' = generator + 1
               /\ optimizer' = optimizer + 1]_vars

C8_Witness ==
    /\ generator = 2
    /\ consumed = 2
    /\ pc = "pull"
    /\ last_save.name = GeneratedImagesAtStep(1)
    /\ sample_writes = 1

\* C9: a failure is fatal and never retried: after it nothing but the
\* unwinding happens (no step, no artifact, no second attempt), the run never
\* reaches a normal exit, and the exception can always take, and only take,
\* the next step out of pretrain_generator and then out of main.
C9_FailureIsFatal ==
    /\ [](exc # "none" => pc \notin {"returned", "exit"})
    /\ [](exc # "none" /\ pc # "uncaught" => ENABLED <<Next>>_vars)
    /\ [][exc # "none"
            => /\ exc' = exc
               /\ pc' = (IF pc \in PretrainPcs THEN "raised_in_main"
                         ELSE "uncaught")
               /\ UNCHANGED <<cfgVars, it, real_batches, image_batch, step,
                              epoch, trainVars, outVars, sample_reads>>]_vars

C9_Witness ==
    /\ exc = "IOError"
    /\ pc = "uncaught"
    /\ generator = 2
    /\ GeneratedImagesAtStep(0) \in result_dir

\* C10: in mode 'full' train_gan is entered only after pretrain_generator has
\* returned, and it is eventually entered (unless the run fails); in mode
\* 'pretrain' train_gan is never invoked; in mode 'gan' pretrain_generator is
\* never invoked and no pretrain_step or artifact occurs.
C10_DispatchOrder ==
    /\ [][(mode = "full" /\ pc # "train_gan" /\ pc' = "train_gan")
            => pc = "returned"]_vars
    /\ [](mode = "full" /\ pc = "main"
            => <>(pc = "train_gan" \/ exc # "none"))
    /\ [](mode = "pretrain" => pc # "train_gan")
    /\ [](mode = "gan"
            => pc \notin PretrainPcs /\ generator = 0 /\ consumed = 0
               /\ result_dir = {})

=============================================================================
